---- MODULE Spec2Model ----
(***************************************************************************)
(* Workflow engine of devchat: the two WorkflowManager implementations.    *)
(*                                                                         *)
(*   core : src/src/devchat/core/workflows/workflow.py                     *)
(*          one <name>.yaml file per workflow in ~/.devchat/workflows      *)
(*   cli  : src/.github/_cli/workflow/manager.py                           *)
(*          an in-memory dict mirrored to ~/.devchat/workflows.yaml        *)
(*                                                                         *)
(* Python values are modelled as follows.  A dict is a function whose      *)
(* domain is its key set (a record when the keys are literal); a list is a *)
(* sequence; None, a raised exception and a returned value are told apart  *)
(* by a "kind" tag.  A YAML file is held as the document it contains:      *)
(* yaml.dump of plain str/list/dict data followed by yaml.safe_load gives  *)
(* the same data back, so what the model keeps of a file is that data and  *)
(* whether the file exists.                                                *)
(***************************************************************************)
EXTENDS Naturals, Sequences, FiniteSets, TLC

VARIABLES
    manager,    \* which WorkflowManager class this process constructed
    coreDir,    \* core: workflows_dir, file stem -> persisted Workflow dict
    workflows,  \* cli: self.workflows, name -> workflow dict
    cfgFile,    \* cli: the file at self.config_path
    dirExists,  \* the directory that holds the store exists on disk
    peer,       \* cli: self.workflows of a second manager on the same file
    self_config, \* ConfigManager: self.config, field -> value
    config_file, \* ConfigManager: the file at self.config_file
    call,       \* the public call in progress or last returned
    runStatus,  \* of the call in progress: Idle, Running, Completed, Failed
    runSteps,   \* the steps list the running call iterates over
    runIdx,     \* position of the loop: step in runSteps, or attempt number
    inHandler,  \* TRUE while a step handler is executing
    results,    \* the run's local variable `results`
    trace,      \* history of the call: handler invocations, results, requests
    live        \* history: names put and not deleted afterwards

vars == <<manager, coreDir, workflows, cfgFile, dirExists, peer, self_config,
          config_file, call, runStatus, runSteps, runIdx, inHandler, results,
          trace, live>>

storeVars == <<coreDir, workflows, cfgFile>>

----------------------------------------------------------------------------
(* Bounds and input domains *)

MaxSteps == 2

Names == {"A", "B"}

EmptyDict == <<>>

Put(d, k, v) == [x \in (DOMAIN d) \cup {k} |-> IF x = k THEN v ELSE d[x]]

Del(d, k) == [x \in (DOMAIN d) \ {k} |-> d[x]]

RetNone == [kind |-> "None"]

Raise(e) == [kind |-> "raise", exc |-> e]

Pending == [kind |-> "pending"]

Str(s) == [kind |-> "str", s |-> s]

\* class Config(BaseModel): the declared fields and their defaults.
Config ==
    [model |-> Str("gpt-4"),
     temperature |-> [kind |-> "float", text |-> "0.7"],
     max_tokens |-> [kind |-> "int", n |-> 2000],
     api_key |-> RetNone,
     huggingface_token |-> RetNone]

Fields == DOMAIN Config

StepLists(pool) == UNION {[1..n -> pool] : n \in 0..MaxSteps}

\* Files a step may point at: the first exists on disk, the second does not.
ExistingFiles == {"a.py"}

\* Steps as they appear in a steps file given to the core `workflow create`:
\* two complete steps, and one that lacks the required field `name`.
CoreStoreStepPool ==
    { [type |-> "code_analysis", name |-> "s1", description |-> "d",
       parameters |-> [file |-> "a.py"]],
      [type |-> "bogus", name |-> "s3", description |-> "",
       parameters |-> EmptyDict],
      [type |-> "code_analysis", description |-> "d"] }

\* The same, with a step that leaves `parameters` out and a step that
\* carries its options under the undeclared key `config`.
CoreStepPool ==
    CoreStoreStepPool \cup
    { [type |-> "test_generation", name |-> "s2", description |-> "d"],
      [type |-> "code_analysis", name |-> "s1", description |-> "",
       config |-> [file |-> "a.py"]] }

\* A steps file: absent, or a YAML mapping with optional description and steps.
StepsFiles(pool) ==
    {[exists |-> FALSE]}
    \cup {[exists |-> TRUE, data |-> [steps |-> s]] : s \in StepLists(pool)}
    \cup {[exists |-> TRUE, data |-> [description |-> "desc", steps |-> s]] :
              s \in StepLists(pool)}
    \cup {[exists |-> TRUE, data |-> [description |-> "desc"]]}

----------------------------------------------------------------------------
(* core: pydantic models *)

StepValid(step) == {"type", "name", "description"} \subseteq DOMAIN step

\* Mutant of WorkflowStep: the parameters of a step are not carried over.
WorkflowStep_dropsParameters(step) ==
    [type |-> step.type, name |-> step.name, description |-> step.description,
     parameters |-> EmptyDict]

\* WorkflowStep(**step): undeclared keys are ignored, parameters defaults to {}.
WorkflowStep(step) ==
    [type |-> step.type, name |-> step.name, description |-> step.description,
     parameters |-> IF "parameters" \in DOMAIN step THEN step.parameters
                    ELSE EmptyDict]

Workflow(name, description, steps) ==
    [name |-> name, description |-> description, steps |-> steps]

\* Workflow(**workflow_data) on the dict read back from a workflow file.
WorkflowParse(data) ==
    Workflow(data.name, data.description,
             [i \in 1..Len(data.steps) |-> WorkflowStep(data.steps[i])])

----------------------------------------------------------------------------
(* core: the store (one file per workflow) *)

\* create_workflow(name, steps_file): what it raises or returns, and the
\* directory afterwards.
core_create_workflow(dir, name, sf) ==
    IF ~sf.exists
    THEN [ret |-> Raise("FileNotFoundError"), dir |-> dir]
    ELSE IF "steps" \notin DOMAIN sf.data
    THEN [ret |-> Raise("KeyError"), dir |-> dir]
    ELSE IF \E i \in 1..Len(sf.data.steps) : ~StepValid(sf.data.steps[i])
    THEN [ret |-> Raise("ValidationError"), dir |-> dir]
    ELSE LET workflow ==
                 Workflow(name,
                          IF "description" \in DOMAIN sf.data
                          THEN sf.data.description ELSE "",
                          [i \in 1..Len(sf.data.steps) |->
                               WorkflowStep(sf.data.steps[i])])
         IN  [ret |-> RetNone, dir |-> Put(dir, name, workflow)]

core_list_workflows(dir) == [kind |-> "list", names |-> DOMAIN dir]

core_get_workflow(dir, name) ==
    IF name \notin DOMAIN dir
    THEN RetNone
    ELSE [kind |-> "Workflow", wf |-> WorkflowParse(dir[name])]

----------------------------------------------------------------------------
(* cli: the store (in-memory dict mirrored to one YAML file) *)

NoFile == [exists |-> FALSE]

\* A file that open(..., 'w') truncated and yaml.dump did not finish.
Truncated == [exists |-> TRUE, truncated |-> TRUE]

\* _load_workflows: the dict self.workflows holds after loading `file`.
\* A truncated file is empty (safe_load gives None, `or {}` applies) or does
\* not parse (the except branch assigns {}): nothing of it is loaded.
cli_load_workflows(file) ==
    IF file.exists /\ "data" \in DOMAIN file THEN file.data ELSE EmptyDict

\* _save_workflows: the file after saving.  `io` is what the file system
\* does: "ok", "open_fails" (open raises, the file stays as it was) or
\* "write_fails" (yaml.dump raises after open truncated the file).  The
\* except branch logs the error and returns normally in both failing cases.
cli_save_workflows(ws, file, io) ==
    CASE io = "ok" -> [exists |-> TRUE, data |-> ws]
      [] io = "open_fails" -> file
      [] OTHER -> Truncated

\* _save_workflows, first statement: config_path.parent.mkdir(parents=True,
\* exist_ok=True) leaves the directory existing whether or not it did.
cli_save_mkdir(dir) == TRUE

\* Mutant of cli_add_workflow: a name that is already stored keeps its record.
cli_add_workflow_keepsExisting(ws, name, workflow) ==
    IF name \in DOMAIN ws THEN ws ELSE Put(ws, name, workflow)

cli_add_workflow(ws, name, workflow) == Put(ws, name, workflow)

cli_remove_workflow(ws, name) ==
    IF name \in DOMAIN ws THEN Del(ws, name) ELSE ws

\* Mutant of cli_get_workflow: self.workflows[name] in place of .get(name).
cli_get_workflow_subscript(ws, name) ==
    IF name \in DOMAIN ws THEN [kind |-> "dict", dict |-> ws[name]]
    ELSE Raise("KeyError")

cli_get_workflow(ws, name) ==
    IF name \in DOMAIN ws THEN [kind |-> "dict", dict |-> ws[name]]
    ELSE RetNone

cli_list_workflows(ws) == [kind |-> "list", names |-> DOMAIN ws]

\* self.workflows_dir is read by create_workflow, update_workflow and
\* delete_workflow but __init__ never assigns it.
cli_has_workflows_dir == FALSE

\* delete_workflow(name): evaluating self.workflows_dir raises before any
\* file is looked at.
cli_delete_workflow(name) ==
    IF cli_has_workflows_dir THEN [kind |-> "bool", b |-> FALSE]
    ELSE Raise("AttributeError")

\* dict.update(u): keys of u are added or replaced, the others stay.
Merge(d, u) ==
    [k \in (DOMAIN d) \cup (DOMAIN u) |-> IF k \in DOMAIN u THEN u[k] ELSE d[k]]

\* str(datetime.now()): the model keeps one value for every time stamp.
Now == "now"

\* create_workflow(name, description, steps) of the cli manager: the first
\* statement reads self.workflows_dir and raises; self.workflows and the
\* workflow file are not touched on any path of the method.
cli_create_workflow(ws, name, description, steps) ==
    [ret |-> IF cli_has_workflows_dir THEN [kind |-> "bool", b |-> TRUE]
             ELSE Raise("AttributeError"),
     ws |-> ws]

\* update_workflow(name, updates) of the cli manager: get_workflow hands out
\* the dict held in self.workflows, so update() and the modified_at
\* assignment change the stored record in place; then self.workflows_dir
\* raises before anything is written.
cli_update_workflow(ws, name, updates) ==
    IF name \notin DOMAIN ws
    THEN [ret |-> [kind |-> "bool", b |-> FALSE], ws |-> ws]
    ELSE [ret |-> IF cli_has_workflows_dir THEN [kind |-> "bool", b |-> TRUE]
                  ELSE Raise("AttributeError"),
          ws |-> Put(ws, name, Put(Merge(ws[name], updates), "modified_at", Now))]

\* The --steps option was not given.
NoOption == [kind |-> "None"]

\* `workflow create NAME [-d DESCRIPTION] [-s STEPS]`: a new manager loads
\* the file, the steps file (when given) is read with yaml.safe_load and the
\* dict built from the arguments goes to add_workflow as it is.  Any
\* exception leaves as a click.ClickException.
cmd_create(file, name, description, sf, io) ==
    LET ws0 == cli_load_workflows(file)
    IN  IF sf # NoOption /\ ~sf.exists
        THEN [ret |-> Raise("ClickException"), ws |-> ws0, file |-> file,
              saved |-> FALSE]
        ELSE LET workflow_data ==
                     [name |-> name,
                      description |-> IF description = "" THEN "Workflow: " \o name
                                      ELSE description,
                      steps |-> IF sf = NoOption THEN <<>> ELSE sf.data]
                 ws1 == cli_add_workflow(ws0, name, workflow_data)
             IN  [ret |-> RetNone, ws |-> ws1, arg |-> workflow_data,
                  file |-> cli_save_workflows(ws1, file, io), saved |-> TRUE]

\* `workflow update NAME STEPS_FILE`: a new manager loads the file; an
\* unknown name is a ClickException; otherwise the steps of the record are
\* replaced by what the steps file holds and the record goes to
\* add_workflow.  click checks that STEPS_FILE exists before the command
\* body runs.
cmd_update(file, name, sf, io) ==
    LET ws0 == cli_load_workflows(file)
    IN  IF name \notin DOMAIN ws0
        THEN [ret |-> Raise("ClickException"), ws |-> ws0, file |-> file,
              saved |-> FALSE]
        ELSE LET workflow == Put(ws0[name], "steps", sf.data)
                 ws1 == cli_add_workflow(ws0, name, workflow)
             IN  [ret |-> RetNone, ws |-> ws1, arg |-> workflow,
                  file |-> cli_save_workflows(ws1, file, io), saved |-> TRUE]

----------------------------------------------------------------------------
(* Public calls on the store.  No call starts while a run is executing:   *)
(* the program is single-threaded and synchronous.                        *)

ResetRun ==
    /\ runStatus' = "Idle"
    /\ runSteps' = <<>>
    /\ runIdx' = 0
    /\ inHandler' = FALSE
    /\ results' = <<>>
    /\ trace' = <<>>

CanCall(m) == manager = m /\ runStatus # "Running"

CoreCreateWorkflow(name, sf) ==
    /\ CanCall("core")
    /\ LET r == core_create_workflow(coreDir, name, sf)
       IN  /\ coreDir' = r.dir
           /\ call' = IF r.ret = RetNone
                      THEN [op |-> "create_workflow", name |-> name,
                            arg |-> sf, ret |-> r.ret]
                      ELSE [op |-> "create_workflow", name |-> name,
                            ret |-> r.ret]
           /\ live' = IF r.ret = RetNone THEN live \cup {name} ELSE live
    /\ ResetRun
    /\ UNCHANGED <<manager, self_config, config_file, peer, dirExists, workflows, cfgFile>>

CoreListWorkflows ==
    /\ CanCall("core")
    /\ call' = [op |-> "list_workflows", ret |-> core_list_workflows(coreDir)]
    /\ ResetRun
    /\ UNCHANGED <<manager, self_config, config_file, peer, dirExists, coreDir, workflows, cfgFile, live>>

CoreGetWorkflow(name) ==
    /\ CanCall("core")
    /\ call' = [op |-> "get_workflow", name |-> name,
                ret |-> core_get_workflow(coreDir, name)]
    /\ ResetRun
    /\ UNCHANGED <<manager, self_config, config_file, peer, dirExists, coreDir, workflows, cfgFile, live>>

\* WorkflowManager(): every cli command constructs a manager, which loads
\* the file.
CliInit ==
    /\ CanCall("cli")
    /\ workflows' = cli_load_workflows(cfgFile)
    /\ call' = [op |-> "__init__", ret |-> RetNone]
    /\ ResetRun
    /\ UNCHANGED <<manager, self_config, config_file, peer, dirExists, coreDir, cfgFile, live>>

\* _load_workflows, except branch: the error is logged and self.workflows is
\* the empty dict.
cli_load_workflows_except == EmptyDict

\* Mutant of CliInitLoadFails: the constructor lets the exception out and
\* no manager replaces the one at hand.
CliInitLoadFails_raises ==
    /\ CanCall("cli")
    /\ cfgFile.exists
    /\ workflows' = workflows
    /\ call' = [op |-> "__init__", loadFailed |-> TRUE, ret |-> Raise("OSError")]
    /\ ResetRun
    /\ UNCHANGED <<manager, self_config, config_file, peer, dirExists, coreDir, cfgFile, live>>

\* WorkflowManager() while open() or yaml.safe_load of the existing file
\* raises (the file cannot be read, or is not valid YAML at that moment).
CliInitLoadFails ==
    /\ CanCall("cli")
    /\ cfgFile.exists
    /\ workflows' = cli_load_workflows_except
    /\ call' = [op |-> "__init__", loadFailed |-> TRUE, ret |-> RetNone]
    /\ ResetRun
    /\ UNCHANGED <<manager, self_config, config_file, peer, dirExists, coreDir, cfgFile, live>>

\* Mutant of CliRemoveWorkflow: the file is rewritten whether or not the
\* name was stored.
CliRemoveWorkflow_alwaysSaves(name, io) ==
    /\ CanCall("cli")
    /\ workflows' = cli_remove_workflow(workflows, name)
    /\ dirExists' = cli_save_mkdir(dirExists)
    /\ cfgFile' = cli_save_workflows(workflows', cfgFile, io)
    /\ call' = [op |-> "remove_workflow", name |-> name,
                existed |-> name \in DOMAIN workflows,
                io |-> IF name \in DOMAIN workflows THEN io ELSE "none",
                ret |-> RetNone]
    /\ live' = live \ {name}
    /\ ResetRun
    /\ UNCHANGED <<manager, self_config, config_file, peer, coreDir>>

CliAddWorkflow(name, workflow, io) ==
    /\ CanCall("cli")
    /\ workflows' = cli_add_workflow(workflows, name, workflow)
    /\ dirExists' = cli_save_mkdir(dirExists)
    /\ cfgFile' = cli_save_workflows(workflows', cfgFile, io)
    /\ call' = [op |-> "add_workflow", name |-> name, arg |-> workflow,
                overwrote |-> /\ name \in DOMAIN workflows
                              /\ workflows[name] # workflow,
                io |-> io, ret |-> RetNone]
    /\ live' = live \cup {name}
    /\ ResetRun
    /\ UNCHANGED <<manager, self_config, config_file, peer, coreDir>>

CliRemoveWorkflow(name, io) ==
    /\ CanCall("cli")
    /\ workflows' = cli_remove_workflow(workflows, name)
    /\ dirExists' = IF name \in DOMAIN workflows
                    THEN cli_save_mkdir(dirExists)
                    ELSE dirExists
    /\ cfgFile' = IF name \in DOMAIN workflows
                  THEN cli_save_workflows(workflows', cfgFile, io)
                  ELSE cfgFile
    /\ call' = [op |-> "remove_workflow", name |-> name,
                existed |-> name \in DOMAIN workflows,
                io |-> IF name \in DOMAIN workflows THEN io ELSE "none",
                ret |-> RetNone]
    /\ live' = live \ {name}
    /\ ResetRun
    /\ UNCHANGED <<manager, self_config, config_file, peer, coreDir>>

CliDeleteWorkflow(name) ==
    /\ CanCall("cli")
    /\ call' = [op |-> "delete_workflow", name |-> name,
                existed |-> name \in DOMAIN workflows,
                ret |-> cli_delete_workflow(name)]
    /\ live' = live \ {name}
    /\ ResetRun
    /\ UNCHANGED <<manager, self_config, config_file, peer, dirExists, coreDir, workflows, cfgFile>>

CliGetWorkflow(name) ==
    /\ CanCall("cli")
    /\ call' = [op |-> "get_workflow", name |-> name,
                ret |-> cli_get_workflow(workflows, name)]
    /\ ResetRun
    /\ UNCHANGED <<manager, self_config, config_file, peer, dirExists, coreDir, workflows, cfgFile, live>>

CliListWorkflows ==
    /\ CanCall("cli")
    /\ call' = [op |-> "list_workflows", ret |-> cli_list_workflows(workflows)]
    /\ ResetRun
    /\ UNCHANGED <<manager, self_config, config_file, peer, dirExists, coreDir, workflows, cfgFile, live>>

----------------------------------------------------------------------------
(* Runs.  A run is one call of core run_workflow, cli execute_workflow or  *)
(* cli run_workflow; its for loop advances one step per action, and a      *)
(* handler call is split into its invocation and its return or raise.      *)

Get(d, k, default) == IF k \in DOMAIN d THEN d[k] ELSE default

\* A YAML steps list may hold a scalar where a mapping is expected.
IsDict(step) == "scalar" \notin DOMAIN step

\* `if not workflow`: None and the empty dict are both falsy.
Falsy(r) == r = RetNone \/ (r.kind = "dict" /\ DOMAIN r.dict = {})

Invoke(k) == [ev |-> "invoke", step |-> k]

Record(k) == [ev |-> "record", step |-> k]

\* The element the for loop visits after element idx.
NextStep(idx) == idx + 1

StartRun(op, name, steps) ==
    /\ call' = [op |-> op, name |-> name, ret |-> Pending]
    /\ runStatus' = "Running"
    /\ runSteps' = steps
    /\ runIdx' = 1
    /\ inHandler' = FALSE
    /\ results' = <<>>
    /\ trace' = <<>>

InLoop(m, op) ==
    /\ manager = m
    /\ call.op = op
    /\ runStatus = "Running"

\* ---- core run_workflow ----

\* Mutant of core_not_implemented: the stub reports a success.
core_not_implemented_success == [status |-> "success"]

core_not_implemented == [status |-> "not_implemented"]

core_skipped(type) ==
    [status |-> "skipped", reason |-> <<"Unknown step type: ", type>>]

core_handler(type) ==
    CASE type = "code_analysis" -> "_run_code_analysis"
      [] type = "test_generation" -> "_run_test_generation"
      [] OTHER -> "none"

CoreRunWorkflow(name) ==
    /\ CanCall("core")
    /\ LET r == core_get_workflow(coreDir, name)
       IN  IF r = RetNone
           THEN /\ call' = [op |-> "run_workflow", name |-> name,
                           ret |-> Raise("ValueError")]
                /\ ResetRun
           ELSE StartRun("run_workflow", name, r.wf.steps)
    /\ UNCHANGED <<manager, self_config, config_file, peer, dirExists, coreDir, workflows, cfgFile, live>>

\* One iteration whose step type has a handler: the handler is called.
CoreRunInvoke ==
    /\ InLoop("core", "run_workflow")
    /\ ~inHandler
    /\ runIdx <= Len(runSteps)
    /\ core_handler(runSteps[runIdx].type) # "none"
    /\ inHandler' = TRUE
    /\ trace' = Append(trace, Invoke(runIdx))
    /\ UNCHANGED <<manager, self_config, config_file, peer, dirExists, coreDir, workflows, cfgFile, live, call,
                   runStatus, runSteps, runIdx, results>>

\* The stub handler returns and its result is stored under the step name.
CoreRunReturn ==
    /\ InLoop("core", "run_workflow")
    /\ inHandler
    /\ results' = Put(results, runSteps[runIdx].name, core_not_implemented)
    /\ trace' = Append(trace, Record(runIdx))
    /\ inHandler' = FALSE
    /\ runIdx' = NextStep(runIdx)
    /\ UNCHANGED <<manager, self_config, config_file, peer, dirExists, coreDir, workflows, cfgFile, live, call,
                   runStatus, runSteps>>

\* One iteration whose step type has no handler: a skipped marker is stored.
CoreRunSkip ==
    /\ InLoop("core", "run_workflow")
    /\ ~inHandler
    /\ runIdx <= Len(runSteps)
    /\ core_handler(runSteps[runIdx].type) = "none"
    /\ results' = Put(results, runSteps[runIdx].name,
                      core_skipped(runSteps[runIdx].type))
    /\ trace' = Append(trace, Record(runIdx))
    /\ runIdx' = NextStep(runIdx)
    /\ UNCHANGED <<manager, self_config, config_file, peer, dirExists, coreDir, workflows, cfgFile, live, call,
                   runStatus, runSteps, inHandler>>

CoreRunEnd ==
    /\ InLoop("core", "run_workflow")
    /\ ~inHandler
    /\ runIdx > Len(runSteps)
    /\ runStatus' = "Completed"
    /\ call' = [call EXCEPT !.ret = [kind |-> "dict", dict |-> results]]
    /\ UNCHANGED <<manager, self_config, config_file, peer, dirExists, coreDir, workflows, cfgFile, live, runSteps,
                   runIdx, inHandler, results, trace>>

\* ---- cli execute_workflow ----

\* The fixed key a step type's result is stored under; "none" for a type
\* no branch of the if/elif chain matches.
\* Mutant of cli_execute_key: the result is stored under the step type.
cli_execute_key_byType(type) ==
    IF type \in {"code_analysis", "test_generation", "refactoring"}
    THEN type ELSE "none"

cli_execute_key(type) ==
    CASE type = "code_analysis" -> "analysis"
      [] type = "test_generation" -> "tests"
      [] type = "refactoring" -> "refactoring"
      [] OTHER -> "none"

\* except Exception as e: log and re-raise.
cli_execute_workflow_except(e) == Raise(e)

CliExecuteWorkflow(name) ==
    /\ CanCall("cli")
    /\ LET r == cli_get_workflow(workflows, name)
       IN  IF Falsy(r)
           THEN /\ call' = [op |-> "execute_workflow", name |-> name,
                           ret |-> Raise("ValueError")]
                /\ ResetRun
           ELSE StartRun("execute_workflow", name, Get(r.dict, "steps", <<>>))
    /\ UNCHANGED <<manager, self_config, config_file, peer, dirExists, coreDir, workflows, cfgFile, live>>

CliExecuteInvoke ==
    /\ InLoop("cli", "execute_workflow")
    /\ ~inHandler
    /\ runIdx <= Len(runSteps)
    /\ IsDict(runSteps[runIdx])
    /\ cli_execute_key(Get(runSteps[runIdx], "type", "None")) # "none"
    /\ inHandler' = TRUE
    /\ trace' = Append(trace, Invoke(runIdx))
    /\ UNCHANGED <<manager, self_config, config_file, peer, dirExists, coreDir, workflows, cfgFile, live, call,
                   runStatus, runSteps, runIdx, results>>

\* The handler body is `pass`: it returns None, stored under the fixed key.
CliExecuteReturn ==
    /\ InLoop("cli", "execute_workflow")
    /\ inHandler
    /\ results' = Put(results,
                      cli_execute_key(Get(runSteps[runIdx], "type", "None")),
                      RetNone)
    /\ trace' = Append(trace, Record(runIdx))
    /\ inHandler' = FALSE
    /\ runIdx' = NextStep(runIdx)
    /\ UNCHANGED <<manager, self_config, config_file, peer, dirExists, coreDir, workflows, cfgFile, live, call,
                   runStatus, runSteps>>

\* No branch matches the step type: nothing is stored.
CliExecutePass ==
    /\ InLoop("cli", "execute_workflow")
    /\ ~inHandler
    /\ runIdx <= Len(runSteps)
    /\ IsDict(runSteps[runIdx])
    /\ cli_execute_key(Get(runSteps[runIdx], "type", "None")) = "none"
    /\ runIdx' = NextStep(runIdx)
    /\ UNCHANGED <<manager, self_config, config_file, peer, dirExists, coreDir, workflows, cfgFile, live, call,
                   runStatus, runSteps, inHandler, results, trace>>

\* step.get on a step that is not a mapping raises inside the try block.
CliExecuteBadStep ==
    /\ InLoop("cli", "execute_workflow")
    /\ ~inHandler
    /\ runIdx <= Len(runSteps)
    /\ ~IsDict(runSteps[runIdx])
    /\ runStatus' = "Failed"
    /\ call' = [call EXCEPT !.ret = cli_execute_workflow_except("AttributeError")]
    /\ UNCHANGED <<manager, self_config, config_file, peer, dirExists, coreDir, workflows, cfgFile, live, runSteps,
                   runIdx, inHandler, results, trace>>

CliExecuteEnd ==
    /\ InLoop("cli", "execute_workflow")
    /\ ~inHandler
    /\ runIdx > Len(runSteps)
    /\ runStatus' = "Completed"
    /\ call' = [call EXCEPT !.ret = [kind |-> "dict", dict |-> results]]
    /\ UNCHANGED <<manager, self_config, config_file, peer, dirExists, coreDir, workflows, cfgFile, live, runSteps,
                   runIdx, inHandler, results, trace>>

\* ---- cli run_workflow ----

\* os.path.exists(file)
path_exists(file) == file \in ExistingFiles

\* The handler the step's branch calls, "none" when the branch's condition
\* (a configured file that exists, a configured query) is false or no branch
\* matches the type.
cli_run_handler(step) ==
    LET type == Get(step, "type", "None")
        config == Get(step, "config", EmptyDict)
    IN  CASE type = "analyze" ->
                 IF "file" \in DOMAIN config /\ path_exists(config.file)
                 THEN "analyze_complexity" ELSE "none"
          [] type = "assist" ->
                 IF "query" \in DOMAIN config THEN "get_code_assistance"
                 ELSE "none"
          [] type = "test" ->
                 IF "file" \in DOMAIN config /\ path_exists(config.file)
                 THEN "generate_tests" ELSE "none"
          [] OTHER -> "none"

\* CodeAnalyzer.analyze_complexity(file) is handed the path itself as the
\* code to parse; "a.py" parses as an attribute expression of one line. It
\* catches every exception of its own.
analyze_complexity(code) ==
    [num_functions |-> 0, num_classes |-> 0, num_imports |-> 0,
     lines_of_code |-> 1, complexity_score |-> 0]

\* AIEngine(): __init__ requires api_key, so the call without arguments
\* raises TypeError before any request is made.
AIEngine_init == Raise("TypeError: __init__() missing 1 required positional argument: 'api_key'")

\* What the completion service does with one request.
ServiceOutcomes == {"ok", "unreachable", "error"}

\* AIEngine.generate_tests(code) on an engine constructed with a key: the
\* text of the completion, or, when the request raises, the except clause's
\* return value, a text that starts with "Error generating tests: ".
generate_tests(service) ==
    IF service = "ok"
    THEN [kind |-> "return", value |-> "tests"]
    ELSE [kind |-> "return", value |-> "Error generating tests: " \o service]

\* What the handler call of a step does: return a value or raise.
cli_run_handler_outcome(handler, step) ==
    IF handler = "analyze_complexity"
    THEN [kind |-> "return", value |-> analyze_complexity(step.config.file)]
    ELSE AIEngine_init

\* The branch's label in the results list.
cli_run_label(handler) ==
    CASE handler = "analyze_complexity" -> "analyze"
      [] handler = "get_code_assistance" -> "assist"
      [] OTHER -> "test"

\* Mutant of cli_run_workflow_except: the outcomes collected so far are
\* left out of the failure dict.
cli_run_workflow_except_dropsPartial(e, res) ==
    [kind |-> "dict",
     dict |-> [success |-> FALSE, error |-> e, partial_results |-> <<>>]]

\* Mutant of cli_run_workflow_except: the exception is raised again.
cli_run_workflow_except_reraises(e, res) == Raise(e)

\* except Exception as e: the failure dict that is returned.
cli_run_workflow_except(e, res) ==
    [kind |-> "dict",
     dict |-> [success |-> FALSE, error |-> e, partial_results |-> res]]

cli_run_workflow_not_found ==
    [kind |-> "dict", dict |-> [success |-> FALSE, error |-> "Workflow not found"]]

CliRunWorkflow(name) ==
    /\ CanCall("cli")
    /\ LET r == cli_get_workflow(workflows, name)
       IN  IF Falsy(r)
           THEN /\ call' = [op |-> "run_workflow", name |-> name,
                           ret |-> cli_run_workflow_not_found]
                /\ ResetRun
           ELSE StartRun("run_workflow", name, Get(r.dict, "steps", <<>>))
    /\ UNCHANGED <<manager, self_config, config_file, peer, dirExists, coreDir, workflows, cfgFile, live>>

\* Mutant of CliRunInvoke: the handler is started and the loop moves on
\* without waiting for it to return.
CliRunInvoke_doesNotWait ==
    /\ InLoop("cli", "run_workflow")
    /\ ~inHandler
    /\ runIdx <= Len(runSteps)
    /\ IsDict(runSteps[runIdx])
    /\ cli_run_handler(runSteps[runIdx]) # "none"
    /\ trace' = Append(trace, Invoke(runIdx))
    /\ runIdx' = NextStep(runIdx)
    /\ UNCHANGED <<manager, self_config, config_file, peer, dirExists, coreDir, workflows, cfgFile, live, call,
                   runStatus, runSteps, inHandler, results>>

CliRunInvoke ==
    /\ InLoop("cli", "run_workflow")
    /\ ~inHandler
    /\ runIdx <= Len(runSteps)
    /\ IsDict(runSteps[runIdx])
    /\ cli_run_handler(runSteps[runIdx]) # "none"
    /\ inHandler' = TRUE
    /\ trace' = Append(trace, Invoke(runIdx))
    /\ UNCHANGED <<manager, self_config, config_file, peer, dirExists, coreDir, workflows, cfgFile, live, call,
                   runStatus, runSteps, runIdx, results>>

\* Mutant of CliRunReturn: the handler's return is also noted in the stored
\* workflow.
CliRunReturn_marksWorkflow ==
    /\ InLoop("cli", "run_workflow")
    /\ inHandler
    /\ LET h == cli_run_handler(runSteps[runIdx])
           o == cli_run_handler_outcome(h, runSteps[runIdx])
       IN  /\ o.kind = "return"
           /\ results' = Append(results, [step |-> cli_run_label(h),
                                          results |-> o.value])
    /\ workflows' = [workflows EXCEPT ![call.name] = Put(@, "last_run", Now)]
    /\ trace' = Append(trace, Record(runIdx))
    /\ inHandler' = FALSE
    /\ runIdx' = NextStep(runIdx)
    /\ UNCHANGED <<manager, self_config, config_file, peer, dirExists, coreDir, cfgFile, live, call,
                   runStatus, runSteps>>

CliRunReturn ==
    /\ InLoop("cli", "run_workflow")
    /\ inHandler
    /\ LET h == cli_run_handler(runSteps[runIdx])
           o == cli_run_handler_outcome(h, runSteps[runIdx])
       IN  /\ o.kind = "return"
           /\ results' = Append(results, [step |-> cli_run_label(h),
                                          results |-> o.value])
    /\ trace' = Append(trace, Record(runIdx))
    /\ inHandler' = FALSE
    /\ runIdx' = NextStep(runIdx)
    /\ UNCHANGED <<manager, self_config, config_file, peer, dirExists, coreDir, workflows, cfgFile, live, call,
                   runStatus, runSteps>>

\* The handler raises; the except clause of run_workflow takes over.
CliRunRaise ==
    /\ InLoop("cli", "run_workflow")
    /\ inHandler
    /\ LET h == cli_run_handler(runSteps[runIdx])
           o == cli_run_handler_outcome(h, runSteps[runIdx])
       IN  /\ o.kind = "raise"
           /\ call' = [call EXCEPT !.ret = cli_run_workflow_except(o.exc, results)]
    /\ runStatus' = "Failed"
    /\ UNCHANGED <<manager, self_config, config_file, peer, dirExists, coreDir, workflows, cfgFile, live, runSteps,
                   runIdx, inHandler, results, trace>>

\* Mutant of CliRunPass: the loop does not move on to the next step.
CliRunPass_staysOnStep ==
    /\ InLoop("cli", "run_workflow")
    /\ ~inHandler
    /\ runIdx <= Len(runSteps)
    /\ IsDict(runSteps[runIdx])
    /\ cli_run_handler(runSteps[runIdx]) = "none"
    /\ runIdx' = runIdx
    /\ UNCHANGED <<manager, self_config, config_file, peer, dirExists, coreDir, workflows, cfgFile, live, call,
                   runStatus, runSteps, inHandler, results, trace>>

\* The branch's condition is false, or no branch matches: nothing is stored.
CliRunPass ==
    /\ InLoop("cli", "run_workflow")
    /\ ~inHandler
    /\ runIdx <= Len(runSteps)
    /\ IsDict(runSteps[runIdx])
    /\ cli_run_handler(runSteps[runIdx]) = "none"
    /\ runIdx' = NextStep(runIdx)
    /\ UNCHANGED <<manager, self_config, config_file, peer, dirExists, coreDir, workflows, cfgFile, live, call,
                   runStatus, runSteps, inHandler, results, trace>>

\* step.get on a step that is not a mapping raises inside the try block.
CliRunBadStep ==
    /\ InLoop("cli", "run_workflow")
    /\ ~inHandler
    /\ runIdx <= Len(runSteps)
    /\ ~IsDict(runSteps[runIdx])
    /\ runStatus' = "Failed"
    /\ call' = [call EXCEPT !.ret =
                    cli_run_workflow_except("AttributeError: 'str' object has no attribute 'get'",
                                            results)]
    /\ UNCHANGED <<manager, self_config, config_file, peer, dirExists, coreDir, workflows, cfgFile, live, runSteps,
                   runIdx, inHandler, results, trace>>

CliRunEnd ==
    /\ InLoop("cli", "run_workflow")
    /\ ~inHandler
    /\ runIdx > Len(runSteps)
    /\ runStatus' = "Completed"
    /\ call' = [call EXCEPT !.ret =
                    [kind |-> "dict",
                     dict |-> [success |-> TRUE, workflow |-> call.name,
                               results |-> results]]]
    /\ UNCHANGED <<manager, self_config, config_file, peer, dirExists, coreDir, workflows, cfgFile, live, runSteps,
                   runIdx, inHandler, results, trace>>

----------------------------------------------------------------------------
(* cli: create_workflow and update_workflow of the manager, and the        *)
(* `workflow create` and `workflow update` commands                        *)

CliCreateWorkflow(name, description, steps) ==
    /\ CanCall("cli")
    /\ LET r == cli_create_workflow(workflows, name, description, steps)
       IN  /\ workflows' = r.ws
           /\ call' = [op |-> "create_workflow", name |-> name, ret |-> r.ret]
    /\ ResetRun
    /\ UNCHANGED <<manager, self_config, config_file, peer, dirExists, coreDir, cfgFile, live>>

CliUpdateWorkflow(name, updates) ==
    /\ CanCall("cli")
    /\ LET r == cli_update_workflow(workflows, name, updates)
       IN  /\ workflows' = r.ws
           /\ call' = [op |-> "update_workflow", name |-> name,
                       arg |-> updates, ret |-> r.ret]
    /\ ResetRun
    /\ UNCHANGED <<manager, self_config, config_file, peer, dirExists, coreDir, cfgFile, live>>

CmdCreate(name, description, sf, io) ==
    /\ CanCall("cli")
    /\ LET r == cmd_create(cfgFile, name, description, sf, io)
       IN  /\ workflows' = r.ws
           /\ cfgFile' = r.file
           /\ dirExists' = IF r.saved THEN cli_save_mkdir(dirExists)
                           ELSE dirExists
           /\ call' = IF r.saved
                      THEN [op |-> "create", name |-> name, arg |-> r.arg,
                            io |-> io, ret |-> r.ret]
                      ELSE [op |-> "create", name |-> name, ret |-> r.ret]
           /\ live' = IF r.saved THEN live \cup {name} ELSE live
    /\ ResetRun
    /\ UNCHANGED <<manager, self_config, config_file, peer, coreDir>>

CmdUpdate(name, sf, io) ==
    /\ CanCall("cli")
    /\ LET r == cmd_update(cfgFile, name, sf, io)
       IN  /\ workflows' = r.ws
           /\ cfgFile' = r.file
           /\ dirExists' = IF r.saved THEN cli_save_mkdir(dirExists)
                           ELSE dirExists
           /\ call' = IF r.saved
                      THEN [op |-> "update", name |-> name, arg |-> r.arg,
                            io |-> io, ret |-> r.ret]
                      ELSE [op |-> "update", name |-> name, ret |-> r.ret]
    /\ ResetRun
    /\ UNCHANGED <<manager, self_config, config_file, peer, coreDir, live>>

----------------------------------------------------------------------------
(* The completion engine called on its own *)

GenerateTests(service) ==
    /\ runStatus # "Running"
    /\ call' = [op |-> "generate_tests", service |-> service,
                ret |-> generate_tests(service)]
    /\ ResetRun
    /\ UNCHANGED <<manager, self_config, config_file, peer, dirExists, coreDir, workflows, cfgFile, live>>

\* @retry(stop=stop_after_attempt(3), ...) on get_completion.
stop_after_attempt == 3

\* One execution of the body of get_completion.  self.client is the
\* synchronous openai.OpenAI client, so chat.completions.create performs the
\* request and returns a ChatCompletion object or raises; `await` applied
\* to that object raises TypeError.  Either exception is logged and raised
\* again by the except clause, so the return statement is never reached.
get_completion_attempt(service) ==
    IF service = "ok"
    THEN Raise("TypeError: object ChatCompletion can't be used in 'await' expression")
    ELSE Raise(service)

Request(k, service) == [ev |-> "request", step |-> k, service |-> service]

\* await engine.get_completion(messages): the call starts with attempt 1.
GetCompletion ==
    /\ runStatus # "Running"
    /\ call' = [op |-> "get_completion", ret |-> Pending]
    /\ runStatus' = "Running"
    /\ runSteps' = <<>>
    /\ runIdx' = 1
    /\ inHandler' = FALSE
    /\ results' = <<>>
    /\ trace' = <<>>
    /\ UNCHANGED <<manager, self_config, config_file, peer, dirExists, coreDir, workflows, cfgFile, live>>

\* Attempt number runIdx: the body runs once against the service.  A
\* returned value ends the call; an exception is retried by tenacity until
\* attempt stop_after_attempt has failed, and then RetryError is raised.
CompletionAttempt(service) ==
    /\ call.op = "get_completion"
    /\ runStatus = "Running"
    /\ trace' = Append(trace, Request(runIdx, service))
    /\ LET o == get_completion_attempt(service)
       IN  IF o.kind = "return"
           THEN /\ call' = [call EXCEPT !.ret = o]
                /\ runStatus' = "Completed"
                /\ runIdx' = runIdx
           ELSE IF runIdx >= stop_after_attempt
           THEN /\ call' = [call EXCEPT !.ret = Raise("RetryError")]
                /\ runStatus' = "Failed"
                /\ runIdx' = runIdx
           ELSE /\ call' = call
                /\ runStatus' = runStatus
                /\ runIdx' = runIdx + 1
    /\ UNCHANGED <<manager, self_config, config_file, peer, dirExists, coreDir, workflows, cfgFile, live,
                   runSteps, inHandler, results>>

----------------------------------------------------------------------------
(* Exit status of the commands *)

\* `devchat workflow create NAME STEPS_FILE` of the core CLI: the command
\* body catches every exception of create_workflow, prints the message in
\* red and returns, so the process ends with status 0 either way.
main_create(dir, name, sf) ==
    LET r == core_create_workflow(dir, name, sf)
    IN  [dir |-> r.dir,
         error |-> r.ret,
         printed |-> IF r.ret.kind = "raise" THEN "Error" ELSE "created",
         exit |-> 0]

MainCreate(name, sf) ==
    /\ CanCall("core")
    /\ LET r == main_create(coreDir, name, sf)
       IN  /\ coreDir' = r.dir
           /\ call' = [op |-> "create", name |-> name, error |-> r.error,
                       printed |-> r.printed, exit |-> r.exit, ret |-> RetNone]
           /\ live' = IF r.error = RetNone THEN live \cup {name} ELSE live
    /\ ResetRun
    /\ UNCHANGED <<manager, self_config, config_file, peer, dirExists, workflows, cfgFile>>

\* Exit status of a cli command: click turns a ClickException into the
\* message on stderr and status 1; a command body that returns exits with 0.
cmd_exit(ret) == IF ret = Raise("ClickException") THEN 1 ELSE 0

----------------------------------------------------------------------------
(* cli: a second manager, constructed by another process on the same      *)
(* workflow file.  Each manager keeps the map it loaded when it was       *)
(* constructed; a save writes the whole map of the manager that saves.    *)

PeerInit ==
    /\ CanCall("cli")
    /\ peer' = cli_load_workflows(cfgFile)
    /\ call' = [op |-> "__init__", client |-> "peer", ret |-> RetNone]
    /\ ResetRun
    /\ UNCHANGED <<manager, self_config, config_file, dirExists, coreDir, workflows, cfgFile, live>>

PeerAddWorkflow(name, workflow, io) ==
    /\ CanCall("cli")
    /\ peer' = cli_add_workflow(peer, name, workflow)
    /\ dirExists' = cli_save_mkdir(dirExists)
    /\ cfgFile' = cli_save_workflows(peer', cfgFile, io)
    /\ call' = [op |-> "add_workflow", client |-> "peer", name |-> name,
                arg |-> workflow, io |-> io, ret |-> RetNone]
    /\ live' = live \cup {name}
    /\ ResetRun
    /\ UNCHANGED <<manager, self_config, config_file, coreDir, workflows>>

----------------------------------------------------------------------------
(* Store specification: both managers, two names *)

\* Workflow dicts given to the cli add_workflow in the store specification.
CliStoreStepPool ==
    { [type |-> "analyze", name |-> "s1", description |-> "d",
       config |-> [file |-> "a.py"]],
      [type |-> "bogus", name |-> "s2", description |-> "d"] }

CliWorkflows(name, pool) ==
    {[name |-> name, description |-> "desc", steps |-> s] : s \in StepLists(pool)}

\* Writes to the workflow file succeed in this specification.
IoOutcomes == {"ok"}

Init ==
    /\ manager \in {"core", "cli"}
    /\ coreDir = EmptyDict
    /\ workflows = EmptyDict
    /\ cfgFile = NoFile
    /\ peer = EmptyDict
    /\ self_config = Config
    /\ config_file = NoFile
    /\ dirExists \in (IF manager = "core" THEN {TRUE} ELSE BOOLEAN)
    /\ call = [op |-> "__init__", ret |-> RetNone]
    /\ runStatus = "Idle"
    /\ runSteps = <<>>
    /\ runIdx = 0
    /\ inHandler = FALSE
    /\ results = <<>>
    /\ trace = <<>>
    /\ live = {}

Next ==
    \/ \E n \in Names, sf \in StepsFiles(CoreStoreStepPool) : CoreCreateWorkflow(n, sf)
    \/ CoreListWorkflows
    \/ \E n \in Names : CoreGetWorkflow(n)
    \/ CliInit
    \/ \E n \in Names, io \in IoOutcomes :
           \E w \in CliWorkflows(n, CliStoreStepPool) : CliAddWorkflow(n, w, io)
    \/ \E n \in Names, io \in IoOutcomes : CliRemoveWorkflow(n, io)
    \/ \E n \in Names : CliDeleteWorkflow(n)
    \/ \E n \in Names : CliGetWorkflow(n)
    \/ CliListWorkflows

Spec == Init /\ [][Next]_vars

----------------------------------------------------------------------------
(* Run specification: both managers, workflows stored under one name and  *)
(* run under a stored and under a missing name.                           *)

RunStoreNames == {"A"}

\* Steps of the workflows given to the cli add_workflow before a run.
CliRunStepPool ==
    { [type |-> "analyze", name |-> "a1", config |-> [file |-> "a.py"]],
      [type |-> "analyze", name |-> "a2", config |-> [file |-> "missing.py"]],
      [type |-> "assist", name |-> "q1", config |-> [query |-> "q"]],
      [type |-> "test", name |-> "t1", config |-> [file |-> "a.py"]],
      [type |-> "bogus", name |-> "b1"],
      [type |-> "code_analysis", name |-> "c1"],
      [type |-> "test_generation", name |-> "g1"],
      [type |-> "refactoring", name |-> "r1"],
      [scalar |-> "oops"] }

NextRun ==
    \/ \E n \in RunStoreNames, sf \in StepsFiles(CoreStepPool) :
           CoreCreateWorkflow(n, sf)
    \/ \E n \in Names : CoreRunWorkflow(n)
    \/ CoreRunInvoke
    \/ CoreRunReturn
    \/ CoreRunSkip
    \/ CoreRunEnd
    \/ \E n \in RunStoreNames, io \in IoOutcomes :
           \E w \in CliWorkflows(n, CliRunStepPool) : CliAddWorkflow(n, w, io)
    \/ \E n \in Names : CliExecuteWorkflow(n)
    \/ CliExecuteInvoke
    \/ CliExecuteReturn
    \/ CliExecutePass
    \/ CliExecuteBadStep
    \/ CliExecuteEnd
    \/ \E n \in Names : CliRunWorkflow(n)
    \/ CliRunInvoke
    \/ CliRunReturn
    \/ CliRunRaise
    \/ CliRunPass
    \/ CliRunBadStep
    \/ CliRunEnd
    \/ \E sv \in ServiceOutcomes : GenerateTests(sv)

SpecRun == Init /\ [][NextRun]_vars

\* One step of a run that has started: a handler is invoked, returns or
\* raises, a step without a handler is passed, or the loop ends.
RunStep ==
    \/ CoreRunInvoke \/ CoreRunReturn \/ CoreRunSkip \/ CoreRunEnd
    \/ CliExecuteInvoke \/ CliExecuteReturn \/ CliExecutePass
    \/ CliExecuteBadStep \/ CliExecuteEnd
    \/ CliRunInvoke \/ CliRunReturn \/ CliRunRaise \/ CliRunPass
    \/ CliRunBadStep \/ CliRunEnd

\* A run is one synchronous call: the interpreter goes on to the next
\* statement of the loop, and every handler of the source returns or raises
\* (the stubs return at once, analyze_complexity catches its own errors,
\* AIEngine() raises), so a step that can be taken is taken.
SpecRunFair == SpecRun /\ WF_vars(RunStep)

----------------------------------------------------------------------------
(* Edit specification: one name, every entry point that creates, changes  *)
(* or removes a workflow, and writes to the workflow file that may fail.  *)

EditNames == {"A"}

\* Steps of the definitions given in the edit specification: a step with
\* every field and a step without a name.
EditStepPool ==
    { [type |-> "analyze", name |-> "s1", description |-> "d"],
      [type |-> "analyze", description |-> "d"] }

\* What the file system does with a write of the workflow file.
IoFaults == {"ok", "open_fails", "write_fails"}

\* The -s option of `workflow create`: absent, a missing file, or a file
\* holding a list of steps.
CmdStepsFiles(pool) ==
    {NoOption, [exists |-> FALSE]}
    \cup {[exists |-> TRUE, data |-> s] : s \in StepLists(pool)}

\* The `updates` argument of update_workflow.
Updates(pool) ==
    {[description |-> "changed"]} \cup {[steps |-> s] : s \in StepLists(pool)}

NextEdit ==
    \/ \E n \in EditNames, sf \in StepsFiles(EditStepPool) :
           CoreCreateWorkflow(n, sf)
    \/ \E n \in EditNames, sf \in StepsFiles(EditStepPool) : MainCreate(n, sf)
    \/ \E n \in EditNames : CoreGetWorkflow(n)
    \/ CliInit
    \/ \E n \in EditNames, io \in IoFaults :
           \E w \in CliWorkflows(n, EditStepPool) : CliAddWorkflow(n, w, io)
    \/ \E n \in EditNames, io \in IoFaults : CliRemoveWorkflow(n, io)
    \/ \E n \in EditNames : CliDeleteWorkflow(n)
    \/ \E n \in EditNames, s \in StepLists(EditStepPool) :
           CliCreateWorkflow(n, "desc", s)
    \/ \E n \in EditNames, u \in Updates(EditStepPool) : CliUpdateWorkflow(n, u)
    \/ \E n \in EditNames, d \in {"", "desc"}, io \in IoFaults :
           \E sf \in CmdStepsFiles(EditStepPool) : CmdCreate(n, d, sf, io)
    \/ \E n \in EditNames, io \in IoFaults :
           \E sf \in CmdStepsFiles(EditStepPool) \ {NoOption, [exists |-> FALSE]} :
               CmdUpdate(n, sf, io)
    \/ \E n \in EditNames : CliGetWorkflow(n)

SpecEdit == Init /\ [][NextEdit]_vars

----------------------------------------------------------------------------
(* Two-client specification: two cli managers write to one workflow file  *)
(* in any order (core: any number of processes create files in one        *)
(* directory; the manager keeps nothing in memory).  A save is one step.  *)

TwoClientStepPool == { [type |-> "analyze", name |-> "s1", description |-> "d"] }

NextTwo ==
    \/ \E n \in Names, sf \in StepsFiles(TwoClientStepPool) :
           CoreCreateWorkflow(n, sf)
    \/ \E n \in Names : CoreGetWorkflow(n)
    \/ CliInit
    \/ PeerInit
    \/ \E n \in Names, io \in IoOutcomes :
           \E w \in CliWorkflows(n, TwoClientStepPool) : CliAddWorkflow(n, w, io)
    \/ \E n \in Names, io \in IoOutcomes :
           \E w \in CliWorkflows(n, TwoClientStepPool) : PeerAddWorkflow(n, w, io)
    \/ \E n \in Names : CliGetWorkflow(n)

SpecTwo == Init /\ [][NextTwo]_vars

----------------------------------------------------------------------------
(* ConfigManager: the configuration model, its file ~/.devchat/config.yaml *)
(* and the directory ~/.devchat, which is the directory dirExists stands   *)
(* for.                                                                    *)

\* Names every BaseModel instance has as attributes without their being
\* fields (its methods); three of them stand for all.
BaseModelAttributes == {"dict", "json", "copy"}

\* Keys and values a caller passes: two fields, a method name, and a name
\* that is no attribute at all. Command-line values are strings.
ConfigKeys == {"model", "api_key", "dict", "colour"}

ConfigValues == {"a", "b"}

BoundMethod(name) == [kind |-> "method", name |-> name]

config_hasattr(cfg, key) == key \in DOMAIN cfg \/ key \in BaseModelAttributes

\* getattr(self.config, key, None)
config_get(cfg, key) ==
    IF key \in DOMAIN cfg THEN cfg[key]
    ELSE IF key \in BaseModelAttributes THEN BoundMethod(key)
    ELSE RetNone

\* save_config: open(config_file, 'w') needs the directory; the dump is the
\* dict of the model.
save_config(cfg, file, dir) ==
    IF dir
    THEN [file |-> [exists |-> TRUE, data |-> cfg], ret |-> RetNone]
    ELSE [file |-> file, ret |-> Raise("FileNotFoundError")]

\* load_config: Config(**config_data), the defaults overridden by the keys
\* of the file that are fields. The values the model writes are valid for
\* their fields, so validation passes.
load_config(cfg, file) ==
    IF file.exists
    THEN [f \in Fields |-> IF f \in DOMAIN file.data THEN file.data[f]
                                                    ELSE Config[f]]
    ELSE cfg

\* set: hasattr is true of fields and of methods alike; setattr on a pydantic
\* model raises ValueError for a name that is not a field, and stores the
\* value as given (no validation on assignment) for one that is; then
\* save_config.
config_set(cfg, file, dir, key, value) ==
    IF ~config_hasattr(cfg, key)
    THEN [config |-> cfg, file |-> file, ret |-> RetNone]
    ELSE IF key \notin Fields
    THEN [config |-> cfg, file |-> file, ret |-> Raise("ValueError")]
    ELSE LET c2 == [cfg EXCEPT ![key] = Str(value)]
             w  == save_config(c2, file, dir)
         IN  [config |-> c2, file |-> w.file, ret |-> w.ret]

ConfigFrame ==
    UNCHANGED <<manager, coreDir, workflows, cfgFile, peer, runStatus,
                runSteps, runIdx, inHandler, results, trace, live>>

\* ConfigManager()
ConfigManagerInit ==
    /\ self_config' = Config
    /\ call' = [op |-> "ConfigManager", ret |-> RetNone]
    /\ UNCHANGED <<config_file, dirExists>>
    /\ ConfigFrame

\* setup(): mkdir(exist_ok=True), and a first save when there is no file.
ConfigSetup ==
    /\ dirExists' = TRUE
    /\ config_file' = IF config_file.exists THEN config_file
                      ELSE save_config(self_config, config_file, TRUE).file
    /\ call' = [op |-> "config.setup", ret |-> RetNone]
    /\ UNCHANGED self_config
    /\ ConfigFrame

ConfigLoad ==
    /\ self_config' = load_config(self_config, config_file)
    /\ call' = [op |-> "config.load_config", ret |-> RetNone]
    /\ UNCHANGED <<config_file, dirExists>>
    /\ ConfigFrame

ConfigSet(key, value) ==
    /\ LET r == config_set(self_config, config_file, dirExists, key, value)
       IN  /\ self_config' = r.config
           /\ config_file' = r.file
           /\ call' = [op |-> "config.set", key |-> key, value |-> Str(value),
                       ret |-> r.ret]
    /\ UNCHANGED dirExists
    /\ ConfigFrame

ConfigGet(key) ==
    /\ call' = [op |-> "config.get", key |-> key,
                ret |-> config_get(self_config, key)]
    /\ UNCHANGED <<self_config, config_file, dirExists>>
    /\ ConfigFrame

NextConfig ==
    \/ ConfigManagerInit
    \/ ConfigSetup
    \/ ConfigLoad
    \/ \E k \in ConfigKeys, v \in ConfigValues : ConfigSet(k, v)
    \/ \E k \in ConfigKeys : ConfigGet(k)

SpecConfig == Init /\ [][NextConfig]_vars

----------------------------------------------------------------------------
(* Load specification: the cli manager is constructed again and again on  *)
(* a file that may fail to load; writes succeed.                          *)

NextLoad ==
    \/ \E n \in Names, sf \in StepsFiles(TwoClientStepPool) :
           CoreCreateWorkflow(n, sf)
    \/ CoreListWorkflows
    \/ CliInit
    \/ CliInitLoadFails
    \/ \E n \in Names, io \in IoOutcomes :
           \E w \in CliWorkflows(n, TwoClientStepPool) : CliAddWorkflow(n, w, io)
    \/ \E n \in Names, io \in IoOutcomes : CliRemoveWorkflow(n, io)
    \/ \E n \in Names : CliGetWorkflow(n)
    \/ CliListWorkflows

SpecLoad == Init /\ [][NextLoad]_vars

----------------------------------------------------------------------------
(* Engine specification: the completion engine called on its own *)

NextEngine ==
    \/ GetCompletion
    \/ \E sv \in ServiceOutcomes : CompletionAttempt(sv)
    \/ \E sv \in ServiceOutcomes : GenerateTests(sv)

SpecEngine == Init /\ [][NextEngine]_vars

----------------------------------------------------------------------------
(* Properties *)

Range(f) == {f[x] : x \in DOMAIN f}

\* A steps list in which every step has exactly the four declared fields.
CompleteSteps(steps) ==
    \A i \in 1..Len(steps) :
        DOMAIN steps[i] = {"type", "name", "description", "parameters"}

CreatedFromCompleteFile ==
    /\ manager = "core"
    /\ call.op = "create_workflow"
    /\ call.ret = RetNone
    /\ "description" \in DOMAIN call.arg.data
    /\ CompleteSteps(call.arg.data.steps)

\* C1: round trip of the store. After a put of a valid record W under its
\* name has succeeded, get of that name returns a record equal to W: same
\* name, same description, the same steps in the same order with the same
\* fields (core: create_workflow then get_workflow; cli: add_workflow then
\* get_workflow, from memory and from the file a new manager loads).
C1_RoundTrip ==
    /\ CreatedFromCompleteFile =>
           core_get_workflow(coreDir, call.name) =
               [kind |-> "Workflow",
                wf |-> [name |-> call.name,
                        description |-> call.arg.data.description,
                        steps |-> call.arg.data.steps]]
    /\ (manager = "cli" /\ call.op = "add_workflow") =>
           /\ cli_get_workflow(workflows, call.name) =
                  [kind |-> "dict", dict |-> call.arg]
           /\ cli_get_workflow(cli_load_workflows(cfgFile), call.name) =
                  [kind |-> "dict", dict |-> call.arg]

C1_Witness ==
    /\ CreatedFromCompleteFile
    /\ Len(call.arg.data.steps) = 2
    /\ call.arg.data.steps[1] # call.arg.data.steps[2]
    /\ call.arg.data.steps[1].parameters # EmptyDict

\* C2: a run invokes the step handlers one at a time in declaration order:
\* step indices never decrease along the history, a step is invoked at most
\* once, an invocation is followed at once by the recording of its result,
\* so no handler starts before the previous result is recorded, and a
\* handler is executing exactly when the last event is its invocation.
C2_HandlersInOrder ==
    /\ \A i \in DOMAIN trace : trace[i].step \in 1..Len(runSteps)
    /\ \A i, j \in DOMAIN trace :
           i < j => \/ trace[i].step < trace[j].step
                    \/ /\ trace[i].step = trace[j].step
                       /\ trace[i].ev = "invoke"
                       /\ trace[j].ev = "record"
    /\ \A i \in DOMAIN trace :
           (trace[i].ev = "invoke" /\ i < Len(trace)) =>
               trace[i + 1] = Record(trace[i].step)
    /\ inHandler <=> (trace # <<>> /\ trace[Len(trace)] = Invoke(runIdx))

C2_Witness ==
    /\ runStatus = "Completed"
    /\ trace = <<Invoke(1), Record(1), Invoke(2), Record(2)>>

\* The run ended because the handler of step runIdx raised.
HandlerRaised == runStatus = "Failed" /\ inHandler

\* The step at position k has a type the running entry point has no
\* handler for.
UnknownTypeAt(k) ==
    /\ IsDict(runSteps[k])
    /\ LET type == Get(runSteps[k], "type", "None")
       IN  CASE manager = "core" -> core_handler(type) = "none"
             [] call.op = "execute_workflow" -> cli_execute_key(type) = "none"
             [] OTHER -> type \notin {"analyze", "assist", "test"}

\* C3: a step whose type is not in the handler table yields a result entry
\* for that step with status "skipped" and a reason naming the type, and the
\* run goes on: once the loop is past such a step, its entry is recorded.
C3_UnknownTypeSkipped ==
    \A k \in 1..Len(runSteps) :
        (k < runIdx /\ UnknownTypeAt(k)) =>
            /\ Record(k) \in Range(trace)
            /\ manager = "core" =>
                   core_skipped(runSteps[k].type) \in Range(results)

\* C4: when a step handler raises during a run, the call returns a failed
\* run result (success = false) instead of raising.
C4_HandlerFailureReturned ==
    HandlerRaised =>
        /\ call.ret.kind = "dict"
        /\ call.ret.dict.success = FALSE

C4_Witness ==
    /\ HandlerRaised
    /\ call.op = "run_workflow"
    /\ runIdx = 2

\* C5: when the handler of step k raises, the failed run result holds the
\* error, the name of the failing step k and the outcomes collected for the
\* steps before k.
C5_FailedResultNamesStep ==
    (HandlerRaised /\ call.ret.kind = "dict") =>
        LET d == call.ret.dict
        IN  /\ "error" \in DOMAIN d
            /\ "partial_results" \in DOMAIN d
            /\ d.partial_results = results
            /\ \E f \in (DOMAIN d) \ {"success", "partial_results"} :
                   d[f] = runSteps[runIdx].name

\* A run entry point was called with a name that has no stored record.
RunOfMissingName ==
    /\ call.op \in {"run_workflow", "execute_workflow"}
    /\ runStatus = "Idle"

\* C6: running a name with no stored record returns a structured not-found
\* outcome, never raises, and invokes no handler.
C6_MissingRunStructured ==
    RunOfMissingName =>
        /\ call.ret.kind = "dict"
        /\ trace = <<>>

\* list() of the manager in use.
ListedNames ==
    IF manager = "core" THEN core_list_workflows(coreDir).names
    ELSE cli_list_workflows(workflows).names

\* C7: after any sequence of put and delete calls on an initially empty
\* store, list() is exactly the set of names put and not deleted afterwards.
C7_ListIsPutNotDeleted == ListedNames = live

\* C8: a completed run holds a result entry for every step of the workflow.
C8_CompletedHasEveryEntry ==
    runStatus = "Completed" =>
        \A k \in 1..Len(runSteps) : Record(k) \in Range(trace)

\* The name has no stored record in the manager in use.
Missing(name) ==
    IF manager = "core" THEN name \notin DOMAIN coreDir
    ELSE name \notin DOMAIN workflows

\* C9: get(name) of a name with no stored record returns None, does not
\* raise, and leaves the store as it was.
C9_GetMissingReturnsNone ==
    [][(call'.op = "get_workflow" /\ Missing(call'.name)) =>
           (call'.ret = RetNone /\ UNCHANGED storeVars)]_vars

C9_Witness ==
    /\ call.op = "get_workflow"
    /\ call.ret = RetNone
    /\ Missing(call.name)
    /\ ListedNames # {}

\* C10: delete(name) returns true exactly when a record existed before the
\* call, and afterwards get(name) reports not found and list() lacks name.
C10_DeleteReturnsExisted ==
    call.op \in {"delete_workflow", "remove_workflow"} =>
        /\ call.ret = [kind |-> "bool", b |-> call.existed]
        /\ cli_get_workflow(workflows, call.name) = RetNone
        /\ call.name \notin cli_list_workflows(workflows).names

\* What get_workflow(name) reports on the store (dir, ws) of this manager.
Lookup(dir, ws, name) ==
    IF manager = "core" THEN core_get_workflow(dir, name)
    ELSE cli_get_workflow(ws, name)

\* The call c is a put that was accepted.
PutDone(c) ==
    \/ manager = "cli" /\ c.op = "add_workflow"
    \/ manager = "core" /\ c.op = "create_workflow" /\ c.ret = RetNone

\* The record W2 the accepted put c was given, as get_workflow reports one.
PutRecord(c) ==
    IF manager = "cli"
    THEN [kind |-> "dict", dict |-> c.arg]
    ELSE [kind |-> "Workflow",
          wf |-> WorkflowParse(Workflow(c.name,
                                        Get(c.arg.data, "description", ""),
                                        c.arg.data.steps))]

\* C11: a put under a name returns without error whether or not the name
\* already holds a record; afterwards get of that name returns the record
\* just put (W2, not the record it replaced), get of every other name
\* returns what it returned before, and the directory of the store exists
\* (cli: with the file in it holding what the manager holds), also when the
\* directory did not exist before the put.
C11_PutOverwrites ==
    [][PutDone(call') =>
         /\ call'.ret = RetNone
         /\ Lookup(coreDir', workflows', call'.name) = PutRecord(call')
         /\ \A m \in Names \ {call'.name} :
                Lookup(coreDir', workflows', m) = Lookup(coreDir, workflows, m)
         /\ dirExists'
         /\ manager = "cli" =>
                /\ cfgFile'.exists
                /\ cli_load_workflows(cfgFile') = workflows']_vars

\* A put replaced a different record while another name was stored.
C11_Witness ==
    /\ manager = "cli"
    /\ call.op = "add_workflow"
    /\ call.overwrote
    /\ DOMAIN workflows = Names

\* "overwrite" when a creation call changed the record stored under `name`
\* from `before` to `after`, "reject" when the record is the one it was.
CreatePolicy(before, after, name) ==
    IF after[name] = before[name] THEN "reject" ELSE "overwrite"

\* What the creation entry points of this manager do, in the current state,
\* when called for a stored name with a definition that differs from the
\* stored one (description "second", no steps): core create_workflow; cli
\* add_workflow, create_workflow and the `workflow create` command.
CreatePolicies(name) ==
    IF manager = "core"
    THEN {CreatePolicy(coreDir,
                       core_create_workflow(coreDir, name,
                           [exists |-> TRUE,
                            data |-> [description |-> "second",
                                      steps |-> <<>>]]).dir,
                       name) : x \in {name} \cap DOMAIN coreDir}
    ELSE {CreatePolicy(workflows,
                       cli_add_workflow(workflows, name,
                           [name |-> name, description |-> "second",
                            steps |-> <<>>]),
                       name) : x \in {name} \cap DOMAIN workflows}
         \cup
         {CreatePolicy(workflows,
                       cli_create_workflow(workflows, name, "second", <<>>).ws,
                       name) : x \in {name} \cap DOMAIN workflows}
         \cup
         {CreatePolicy(cli_load_workflows(cfgFile),
                       cmd_create(cfgFile, name, "second", NoOption, "ok").ws,
                       name) : x \in {name} \cap DOMAIN cli_load_workflows(cfgFile)}

\* C12: creating a workflow under a name that already holds one follows one
\* policy at every creation entry point: all of them overwrite the record,
\* or all of them reject the call and leave the record as it was.
C12_OneDuplicatePolicy ==
    \A n \in Names : Cardinality(CreatePolicies(n)) <= 1

\* The workflows that have a persisted record: the files of the core
\* directory, the content of the cli workflow file.
Persisted ==
    IF manager = "core" THEN coreDir ELSE cli_load_workflows(cfgFile)

\* C13: what the manager reports equals what is persisted: list_workflows
\* gives exactly the persisted names, and get_workflow gives for every name
\* what a manager constructed from the persisted records gives.
C13_ViewIsPersisted ==
    /\ manager = "core" =>
           /\ core_list_workflows(coreDir).names = DOMAIN Persisted
           /\ \A n \in Names :
                  core_get_workflow(coreDir, n) = core_get_workflow(Persisted, n)
    /\ manager = "cli" =>
           /\ cli_list_workflows(workflows).names = DOMAIN Persisted
           /\ \A n \in Names :
                  cli_get_workflow(workflows, n) = cli_get_workflow(Persisted, n)

\* The call c is an add_workflow or remove_workflow whose write of the
\* workflow file failed.
WriteFailed(c) ==
    /\ manager = "cli"
    /\ c.op \in {"add_workflow", "remove_workflow"}
    /\ c.io \in {"open_fails", "write_fails"}

\* C14: when the write of a record fails with an I/O error, the call that
\* asked for it raises, and the store is as it was before the call: the
\* manager holds the same records and the file is the same file, with no
\* partly written content.
C14_WriteFailureSurfaced ==
    [][WriteFailed(call') =>
         /\ call'.ret.kind = "raise"
         /\ workflows' = workflows
         /\ cfgFile' = cfgFile
         /\ cfgFile' # Truncated]_vars

\* The call c is a create or an update of a workflow definition: core
\* create_workflow, the cli `workflow create` and `workflow update` commands.
IsCreateOrUpdate(c) ==
    \/ manager = "core" /\ c.op = "create_workflow"
    \/ manager = "cli" /\ c.op \in {"create", "update"}

\* The steps of the definition an accepted create or update was given.
GivenSteps(c) ==
    IF manager = "core" THEN c.arg.data.steps ELSE c.arg.steps

\* C15: create and update reject a definition in which a required field is
\* missing, before anything is persisted: a call that raises leaves the
\* persisted records as they were, and a call that is accepted was given
\* steps that all have type, name and description.
C15_InvalidDefinitionRejected ==
    [][IsCreateOrUpdate(call') =>
         IF call'.ret.kind = "raise"
         THEN UNCHANGED <<coreDir, cfgFile>>
         ELSE \A i \in 1..Len(GivenSteps(call')) :
                  StepValid(GivenSteps(call')[i])]_vars

\* The step at position i of `steps` carries a name.
HasName(steps, i) == IsDict(steps[i]) /\ "name" \in DOMAIN steps[i]

\* C16: in every stored workflow the names of the steps are pairwise
\* distinct (create and update let no definition with a repeated step name
\* into the store).
C16_StepNamesDistinct ==
    \A n \in DOMAIN Persisted :
        \A i, j \in 1..Len(Persisted[n].steps) :
            (i # j /\ HasName(Persisted[n].steps, i)
                   /\ HasName(Persisted[n].steps, j))
                => Persisted[n].steps[i].name # Persisted[n].steps[j].name

\* C17: after the handler of step runIdx raised, nothing of the run happens
\* any more: the last event of the run is the invocation of that handler, no
\* handler of a later step was invoked, and the returned result holds the
\* outcome of every step that completed before the failure, one entry per
\* recorded step.
C17_FailureStopsRun ==
    HandlerRaised =>
        /\ trace # <<>>
        /\ trace[Len(trace)] = Invoke(runIdx)
        /\ \A i \in DOMAIN trace : trace[i].step <= runIdx
        /\ call.ret.kind = "dict"
        /\ call.ret.dict.partial_results = results
        /\ Len(results) =
               Cardinality({i \in DOMAIN trace : trace[i].ev = "record"})

\* The handler of the first step raised and the step after it has a handler.
C17_Witness ==
    /\ HandlerRaised
    /\ runIdx = 1
    /\ Len(runSteps) = 2
    /\ IsDict(runSteps[2])
    /\ cli_run_handler(runSteps[2]) # "none"

Terminal == runStatus \in {"Completed", "Failed"}

\* C18: the status of a run goes Idle -> Running -> Completed or Failed and
\* in no other way (from a terminal status only a new call leaves, to Idle
\* or to the Running of a new run); a run that is Running reaches Completed
\* or Failed; and in a terminal status nothing of the run changes any more
\* until a new call starts with an empty history.
C18_RunStateMachine ==
    /\ [][runStatus' # runStatus =>
             <<runStatus, runStatus'>> \in
                 {<<"Idle", "Running">>, <<"Running", "Completed">>,
                  <<"Running", "Failed">>, <<"Completed", "Idle">>,
                  <<"Completed", "Running">>, <<"Failed", "Idle">>,
                  <<"Failed", "Running">>}]_vars
    /\ [][Terminal =>
             \/ UNCHANGED <<call, runStatus, runSteps, runIdx, inHandler,
                            results, trace>>
             \/ /\ call' # call
                /\ runStatus' \in {"Idle", "Running"}
                /\ trace' = <<>>
                /\ results' = <<>>]_vars
    /\ [](runStatus = "Running" => <>Terminal)

\* A run over the longest steps list ended Completed with results.
C18_Witness ==
    /\ runStatus = "Completed"
    /\ Len(runSteps) = MaxSteps
    /\ results # <<>>
    /\ call.op = "run_workflow"
    /\ manager = "cli"

\* C19: a run changes no stored workflow: in every step that starts a run
\* (run_workflow, execute_workflow, found or not) and in every step of a
\* run, the records the manager holds and the persisted records stay what
\* they were.
C19_RunLeavesStore ==
    [][call'.op \in {"run_workflow", "execute_workflow"} =>
           UNCHANGED storeVars]_vars

\* A run of a stored workflow invoked a handler and ended.
C19_Witness ==
    /\ Terminal
    /\ call.op \in {"run_workflow", "execute_workflow"}
    /\ Invoke(1) \in Range(trace)
    /\ DOMAIN Persisted # {}

\* C20: a failure of the completion service reaches the caller of the
\* engine as a raised exception, so that the step that made the call fails
\* and its run ends Failed; and no run that reports success holds, as the
\* result of a test step, the text of a completion-service error.
C20_ServiceFailureIsHandlerFailure ==
    /\ (call.op = "generate_tests" /\ call.service # "ok") =>
           call.ret.kind = "raise"
    /\ (runStatus = "Completed" /\ call.op = "run_workflow") =>
           \A i \in DOMAIN results :
               results[i].step = "test" =>
                   results[i].results \notin
                       {generate_tests(sv).value :
                            sv \in ServiceOutcomes \ {"ok"}}

\* The attempts of the current get_completion call that the service answered.
Answered == {i \in DOMAIN trace : trace[i].service = "ok"}

\* C21: a completion request is attempted at most stop_after_attempt times;
\* the call ends with the first attempt the service answers, returning the
\* generated text; and when the service answers no attempt the call ends by
\* raising, after the last attempt, never by returning a value.
C21_CompletionBounded ==
    call.op = "get_completion" =>
        /\ Len(trace) <= stop_after_attempt
        /\ runStatus = "Running" => Answered = {}
        /\ (runStatus # "Running" /\ Answered # {}) =>
               /\ Answered = {Len(trace)}
               /\ call.ret.kind = "return"
        /\ (runStatus # "Running" /\ Answered = {}) =>
               /\ Len(trace) = stop_after_attempt
               /\ call.ret.kind = "raise"

\* C22: whichever client writes and in whatever order, after a write the
\* record persisted under the written name is the complete record of that
\* write (the last writer wins), and every record persisted under another
\* name, by this client or the other, is persisted unchanged.
C22_LastWriterWins ==
    [][PutDone(call') =>
         /\ call'.name \in DOMAIN Persisted'
         /\ Persisted'[call'.name] =
                (IF manager = "cli" THEN PutRecord(call').dict
                 ELSE PutRecord(call').wf)
         /\ \A m \in (DOMAIN Persisted) \ {call'.name} :
                /\ m \in DOMAIN Persisted'
                /\ Persisted'[m] = Persisted[m]]_vars

\* The call c is an update of the steps of a workflow whose write, if one
\* was made, succeeded: the `workflow update` command or update_workflow
\* with a `steps` entry.
IsStepsUpdate(c) ==
    /\ manager = "cli"
    /\ \/ c.op = "update" /\ ("io" \in DOMAIN c => c.io = "ok")
       \/ c.op = "update_workflow" /\ "steps" \in DOMAIN c.arg

\* The map the update c looks the name up in: the command constructs a
\* manager from the file, the method uses the manager at hand.
UpdateBase(c) ==
    IF c.op = "update" THEN cli_load_workflows(cfgFile) ELSE workflows

\* C23: an update of the steps of a stored workflow returns without error
\* and leaves, in the manager and in the persisted file, the record with
\* its steps replaced by the given ones and its name and description as
\* they were; an update of a name that is not stored is rejected (an error
\* or False) and changes neither the file nor the manager's map.
C23_UpdateReplacesSteps ==
    [][IsStepsUpdate(call') =>
         IF call'.name \in DOMAIN UpdateBase(call')
         THEN /\ call'.ret.kind # "raise"
              /\ call'.name \in DOMAIN workflows'
              /\ workflows'[call'.name].steps = call'.arg.steps
              /\ workflows'[call'.name].name =
                     UpdateBase(call')[call'.name].name
              /\ workflows'[call'.name].description =
                     UpdateBase(call')[call'.name].description
              /\ call'.name \in DOMAIN Persisted'
              /\ Persisted'[call'.name] = workflows'[call'.name]
         ELSE /\ call'.ret \in {Raise("ClickException"),
                                [kind |-> "bool", b |-> FALSE]}
              /\ cfgFile' = cfgFile
              /\ call'.name \notin DOMAIN workflows']_vars

\* The keys under which a step of a definition file carries its open object.
OpenObjects == {"parameters", "config"}

\* C24: a definition file with a description and a steps list, stored by
\* create, is read back by get with nothing lost: the description, the
\* number and order of the steps, the type, name and description of every
\* step and every entry of its parameters or config object.
C24_DefinitionRoundTrip ==
    (/\ manager = "core"
     /\ call.op = "create_workflow"
     /\ call.ret = RetNone
     /\ "description" \in DOMAIN call.arg.data) =>
        LET given == call.arg.data
            got == core_get_workflow(coreDir, call.name)
        IN  /\ got.kind = "Workflow"
            /\ got.wf.description = given.description
            /\ Len(got.wf.steps) = Len(given.steps)
            /\ \A i \in 1..Len(given.steps) :
                   /\ got.wf.steps[i].type = given.steps[i].type
                   /\ got.wf.steps[i].name = given.steps[i].name
                   /\ got.wf.steps[i].description = given.steps[i].description
                   /\ \A k \in OpenObjects \cap DOMAIN given.steps[i] :
                          /\ k \in DOMAIN got.wf.steps[i]
                          /\ got.wf.steps[i][k] = given.steps[i][k]

\* The call c is a workflow command that met an error: an exception in the
\* command body, or a write of the workflow file that failed.
CommandHitError(c) ==
    /\ c.op \in {"create", "update"}
    /\ IF manager = "core" THEN c.error.kind = "raise"
       ELSE \/ c.ret.kind = "raise"
            \/ "io" \in DOMAIN c /\ c.io # "ok"

\* The exit status of the command c.
ExitStatus(c) == IF manager = "core" THEN c.exit ELSE cmd_exit(c.ret)

\* C25: a workflow command that meets an error exits with a status other
\* than 0 (the core command having printed an error message) and leaves the
\* persisted workflows as they were, with no partly written file.
C25_CommandErrorExitsNonZero ==
    [][CommandHitError(call') =>
         /\ ExitStatus(call') # 0
         /\ manager = "core" => call'.printed = "Error"
         /\ UNCHANGED <<coreDir, cfgFile>>]_vars

\* The step at position k is of type code_analysis or test_generation and
\* the running entry point is one whose handlers for these types are stubs:
\* the core run_workflow or the cli execute_workflow.
StubStepAt(k) ==
    /\ \/ manager = "core" /\ call.op = "run_workflow"
       \/ manager = "cli" /\ call.op = "execute_workflow"
    /\ k \in 1..Len(runSteps)
    /\ IsDict(runSteps[k])
    /\ Get(runSteps[k], "type", "None") \in {"code_analysis", "test_generation"}

\* The key under which the entry point stores the result of step k.
StubKey(k) ==
    IF manager = "core" THEN runSteps[k].name
    ELSE cli_execute_key(runSteps[k].type)

\* The handler of the stub step at runIdx returns in this step.
StubReturns == StubStepAt(runIdx) /\ trace' = Append(trace, Record(runIdx))

ExecuteReturned ==
    /\ manager = "cli"
    /\ call.op = "execute_workflow"
    /\ runStatus = "Completed"

\* The positions of the steps of the given type in the executed workflow.
StepsOfType(type) ==
    {i \in 1..Len(runSteps) : Get(runSteps[i], "type", "None") = type}

\* The returned mapping has an entry under `key` exactly when the workflow
\* has a step of `type`; the entry is then the one recorded last for that
\* type, the return value (None) of the handler of the last such step.
FixedKeyEntry(key, type) ==
    LET d == call.ret.dict
        last == CHOOSE i \in StepsOfType(type) :
                    \A j \in StepsOfType(type) : j <= i
    IN  /\ key \in DOMAIN d <=> StepsOfType(type) # {}
        /\ StepsOfType(type) # {} =>
               /\ d[key] = RetNone
               /\ \A i \in DOMAIN trace :
                      (/\ trace[i].ev = "record"
                       /\ trace[i].step \in StepsOfType(type))
                          => trace[i].step <= last
               /\ Record(last) \in Range(trace)

\* C27: execute_workflow returns a mapping whose keys are among 'analysis',
\* 'tests' and 'refactoring', never step names: one entry per step type
\* present in the workflow, however many steps have that type, holding the
\* result of the last of them; with no step of these types the mapping is
\* empty.
C27_ExecuteFixedKeys ==
    ExecuteReturned =>
        /\ call.ret.kind = "dict"
        /\ DOMAIN call.ret.dict \subseteq {"analysis", "tests", "refactoring"}
        /\ FixedKeyEntry("analysis", "code_analysis")
        /\ FixedKeyEntry("tests", "test_generation")
        /\ FixedKeyEntry("refactoring", "refactoring")

\* Two steps of one type were executed and the mapping has one entry.
C27_Witness ==
    /\ ExecuteReturned
    /\ Len(runSteps) = 2
    /\ StepsOfType("code_analysis") = {1, 2}
    /\ DOMAIN call.ret.dict = {"analysis"}

\* The call c is the construction of a manager whose load of the file failed.
LoadFailed(c) == c.op = "__init__" /\ "loadFailed" \in DOMAIN c

\* C28: when loading the workflow file fails, the constructor returns
\* without raising, the manager holds the empty map and the file is left
\* as it is; an add_workflow that follows writes a file that holds the
\* added workflow and nothing else.
C28_LoadFailureStartsEmpty ==
    [][/\ LoadFailed(call') =>
             /\ call'.ret = RetNone
             /\ workflows' = EmptyDict
             /\ cfgFile' = cfgFile
       /\ (LoadFailed(call) /\ call'.op = "add_workflow") =>
             /\ cfgFile'.exists
             /\ DOMAIN cli_load_workflows(cfgFile') = {call'.name}
             /\ cli_load_workflows(cfgFile')[call'.name] = call'.arg]_vars

\* An add after a failed load left only its own name in the file, although
\* both names had been put and none removed.
C28_Witness ==
    /\ manager = "cli"
    /\ call.op = "add_workflow"
    /\ live = Names
    /\ DOMAIN cli_load_workflows(cfgFile) = {call.name}

\* C29: remove_workflow of a name the manager does not hold returns None
\* without raising and changes nothing: not the map, not the file, not the
\* directory.
C29_RemoveAbsentIsNoOp ==
    [][(manager = "cli" /\ call'.op = "remove_workflow" /\ ~call'.existed) =>
         /\ call'.ret = RetNone
         /\ workflows' = workflows
         /\ cfgFile' = cfgFile
         /\ dirExists' = dirExists]_vars

\* A name was removed that the manager did not hold while the file, which
\* the manager had failed to load, held other content than the manager.
C29_Witness ==
    /\ manager = "cli"
    /\ call.op = "remove_workflow"
    /\ ~call.existed
    /\ cli_load_workflows(cfgFile) # workflows

\* C30: set(key, value) with a key that is a configuration field returns
\* None, makes get(key) return value and leaves the file holding the
\* configuration; with any other key it returns None and changes neither
\* the configuration nor the file; get of a key that is not a field returns
\* None.
C30_ConfigSetGet ==
    [][/\ (call'.op = "config.set" /\ call'.key \in Fields) =>
             /\ call'.ret = RetNone
             /\ config_get(self_config', call'.key) = call'.value
             /\ config_file' = [exists |-> TRUE, data |-> self_config']
       /\ (call'.op = "config.set" /\ call'.key \notin Fields) =>
             /\ call'.ret = RetNone
             /\ self_config' = self_config
             /\ config_file' = config_file
       /\ (call'.op = "config.get" /\ call'.key \notin Fields) =>
             call'.ret = RetNone]_vars

====
